---- MODULE Spec2Model ----
(***************************************************************************)
(* A model of nagios_exporter.py: one call of metrics(args), which runs    *)
(* collect_metrics against a livestatus socket and renders the lines.      *)
(*                                                                         *)
(* Strings are sequences of one-character strings, so that split, strip,   *)
(* replace and the whitelist's substring test are computed as the code     *)
(* computes them.  The remote's reply is a sequence of bytes; a byte of    *)
(* a header or of an error text is one character, and in a JSON payload    *)
(* each lexeme (a bracket or a scalar, separators folded in) stands for    *)
(* one byte.                                                               *)
(***************************************************************************)
EXTENDS Integers, Sequences, FiniteSets, TLC

(***************************************************************************)
(* Bounds of the model.                                                    *)
(***************************************************************************)
\* the longest --whitelist list that is explored
MaxWhitelist == 2

\* recv(n) hands over 1..MaxChunk bytes, or all n
MaxChunk == 2

(***************************************************************************)
(* String helpers (Python str methods used by the source).                 *)
(***************************************************************************)
\* F(v), with v evaluated once however often F uses it
With(v, F(_)) == CHOOSE y \in {F(x) : x \in {v}} : TRUE

Digits == {"0", "1", "2", "3", "4", "5", "6", "7", "8", "9"}

Whitespace == {" ", "\n", "\t", "\r"}

Min(a, b) == IF a < b THEN a ELSE b

MinOf(S) == CHOOSE x \in S : \A y \in S : x <= y

MaxOf(S) == CHOOSE x \in S : \A y \in S : x >= y

Tail_n(s, n) == SubSeq(s, n + 1, Len(s))

Front(s) == SubSeq(s, 1, Len(s) - 1)

Last(s) == s[Len(s)]

RECURSIVE Concat(_)
\* ''.join(seq)
Concat(seq0) ==
    With(seq0, LAMBDA seq :
        IF seq = <<>> THEN <<>> ELSE Head(seq) \o Concat(Tail(seq)))

\* the position of the first character of s that is in set cs, 0 when none
FirstIn(s0, cs) ==
    With(s0, LAMBDA s :
        With({j \in 1..Len(s) : s[j] \in cs}, LAMBDA hits :
            IF hits = {} THEN 0 ELSE MinOf(hits)))

\* the length of the longest prefix of s whose characters are all in cs
SpanLen(s0, cs) ==
    With(s0, LAMBDA s :
        With({j \in 1..Len(s) : s[j] \notin cs}, LAMBDA others :
            IF others = {} THEN Len(s) ELSE MinOf(others) - 1))

\* the length of the longest prefix of s with no character in cs
SpanLenNot(s0, cs) ==
    With(s0, LAMBDA s :
        With(FirstIn(s, cs), LAMBDA i : IF i = 0 THEN Len(s) ELSE i - 1))

RECURSIVE SplitOn(_, _)
\* s.split(sep) for a one-character separator: never empty, keeps empty fields
SplitOn(s0, sep) ==
    With(s0, LAMBDA s :
        With(FirstIn(s, {sep}), LAMBDA i :
            IF i = 0 THEN <<s>>
            ELSE <<SubSeq(s, 1, i - 1)>> \o SplitOn(Tail_n(s, i), sep)))

\* s.lstrip()
LStrip(s0) == With(s0, LAMBDA s : Tail_n(s, SpanLen(s, Whitespace)))

\* s.rstrip()
RStrip(s0) ==
    With(s0, LAMBDA s :
        With({j \in 1..Len(s) : s[j] \notin Whitespace}, LAMBDA others :
            IF others = {} THEN <<>> ELSE SubSeq(s, 1, MaxOf(others))))

\* s.strip()
Strip(s) == RStrip(LStrip(s))

RECURSIVE SplitWs(_)
\* s.split() with no separator: runs of whitespace separate, no empty fields
SplitWs(s0) ==
    With(LStrip(s0), LAMBDA t :
        With(FirstIn(t, Whitespace), LAMBDA i :
            IF t = <<>> THEN <<>>
            ELSE IF i = 0 THEN <<t>>
            ELSE <<SubSeq(t, 1, i - 1)>> \o SplitWs(Tail_n(t, i))))

\* s.replace(a, b) for one-character a and b
Replace(s0, a, b) ==
    With(s0, LAMBDA s : [i \in 1..Len(s) |-> IF s[i] = a THEN b ELSE s[i]])

\* `sub in s`
IsSubstring(sub, s) ==
    \E i \in 0..(Len(s) - Len(sub)) : SubSeq(s, i + 1, i + Len(sub)) = sub

DigitVal(c) == CHOOSE d \in 0..9 : <<"0", "1", "2", "3", "4", "5", "6", "7", "8", "9">>[d + 1] = c

DigitChr(d) == <<"0", "1", "2", "3", "4", "5", "6", "7", "8", "9">>[d + 1]

RECURSIVE DigitsToNat(_)
DigitsToNat(s0) ==
    With(s0, LAMBDA s :
        IF s = <<>> THEN 0 ELSE 10 * DigitsToNat(Front(s)) + DigitVal(Last(s)))

RECURSIVE NatToDigits(_)
\* '%d' % n for n >= 0
NatToDigits(n0) ==
    With(n0, LAMBDA n :
        IF n < 10 THEN <<DigitChr(n)>>
        ELSE NatToDigits(n \div 10) \o <<DigitChr(n % 10)>>)

\* int(s): surrounding whitespace and one sign are accepted
IntParse(s) ==
    With(Strip(s), LAMBDA t :
        LET signed == t # <<>> /\ Head(t) \in {"-", "+"}
            body == IF signed THEN Tail(t) ELSE t
            ok == body # <<>> /\ \A i \in 1..Len(body) : body[i] \in Digits
        IN [ok |-> ok,
            val |-> IF ~ok THEN 0
                    ELSE IF signed /\ Head(t) = "-" THEN 0 - DigitsToNat(body)
                    ELSE DigitsToNat(body)])

(***************************************************************************)
(* Program constants.                                                      *)
(***************************************************************************)
\* COLUMNS: the columns of the services query, in order
COLUMNS ==
    <<"host_name", "service_description", "state", "latency", "perf_data",
      "process_performance_data", "check_command", "acknowledged",
      "execution_time", "is_flapping">>

\* the position of a column in COLUMNS (the namedtuple Service binds by position)
Col(name) == CHOOSE i \in 1..Len(COLUMNS) : COLUMNS[i] = name

\* the size of the fixed16 response header
HeaderLen == 16

NagiosErrors == {"NagiosConnectError", "NagiosQueryError", "NagiosResponseError"}

S_nagios == <<"n", "a", "g", "i", "o", "s", "_">>

S_available1 == <<"n", "a", "g", "i", "o", "s", "_", "l", "i", "v", "e", "s", "t", "a", "t", "u", "s", "_", "a", "v", "a", "i", "l", "a", "b", "l", "e", " ", "1">>

S_available0 == <<"n", "a", "g", "i", "o", "s", "_", "l", "i", "v", "e", "s", "t", "a", "t", "u", "s", "_", "a", "v", "a", "i", "l", "a", "b", "l", "e", " ", "0">>

S_success1 == <<"n", "a", "g", "i", "o", "s", "_", "e", "x", "p", "o", "r", "t", "e", "r", "_", "s", "u", "c", "c", "e", "s", "s", " ", "1">>

S_success0 == <<"n", "a", "g", "i", "o", "s", "_", "e", "x", "p", "o", "r", "t", "e", "r", "_", "s", "u", "c", "c", "e", "s", "s", " ", "0">>

S_no_socket == <<"#", " ", "l", "i", "v", "e", "s", "t", "a", "t", "u", "s", " ", "s", "o", "c", "k", "e", "t", " ", "d", "o", "e", "s", " ", "n", "o", "t", " ", "e", "x", "i", "s", "t", "!", " ">>

S_check_nrpe2 == <<"c", "h", "e", "c", "k", "_", "n", "r", "p", "e", "2">>

S_perf_data == <<"_", "p", "e", "r", "f", "_", "d", "a", "t", "a">>

S_value == <<"v", "a", "l", "u", "e">>

S_hostname == <<"h", "o", "s", "t", "n", "a", "m", "e">>

S_service == <<"s", "e", "r", "v", "i", "c", "e">>

S_key == <<"k", "e", "y">>

S_recv_failed == <<"F", "a", "i", "l", "e", "d", " ", "t", "o", " ", "r", "e", "a", "d", " ", "d", "a", "t", "a", " ", "f", "r", "o", "m", " ", "n", "a", "g", "i", "o", "s", " ", "s", "e", "r", "v", "e", "r", ".">>

S_livestatus_error == <<"L", "i", "v", "e", "s", "t", "a", "t", "u", "s", " ", "e", "r", "r", "o", "r", ":", " ">>

\* an output line: its text, and (for the properties only) where it came from
Line(text, src) == [text |-> text, src |-> src]

(***************************************************************************)
(* Metric Formatter.                                                       *)
(***************************************************************************)
\* a dict is a sequence of <<key, value>> pairs with distinct keys
DictKeys(d) == {d[i][1] : i \in 1..Len(d)}

\* d[k] = v
DictSet(d0, k0, v0) ==
    With(<<d0, k0, v0>>, LAMBDA a :
        LET d == a[1]
            k == a[2]
            v == a[3]
        IN IF k \in DictKeys(d)
           THEN [i \in 1..Len(d) |-> IF d[i][1] = k THEN <<k, v>> ELSE d[i]]
           ELSE Append(d, <<k, v>>))

RECURSIVE DictUpdate(_, _)
\* d.update(e)
DictUpdate(d0, e0) ==
    With(d0, LAMBDA d : With(e0, LAMBDA e :
        IF e = <<>> THEN d
        ELSE DictUpdate(DictSet(d, Head(e)[1], Head(e)[2]), Tail(e))))

\* d.get(k, default)
DictGet(d, k, default) ==
    IF k \in DictKeys(d)
    THEN d[CHOOSE i \in 1..Len(d) : d[i][1] = k][2]
    ELSE default

\* the order in which iteritems() visits the label keys the exporter uses
\* (the order the tests expect: hostname, service, key)
LabelRank(k) == IF k = S_hostname THEN 1 ELSE IF k = S_service THEN 2 ELSE 3

RECURSIVE JoinComma(_)
\* ', '.join(fields)
JoinComma(fields0) ==
    With(fields0, LAMBDA fields :
        IF fields = <<>> THEN <<>>
        ELSE IF Len(fields) = 1 THEN fields[1]
        ELSE fields[1] \o <<",", " ">> \o JoinComma(Tail(fields)))

format_labels(labels0) ==
    With(labels0, LAMBDA labels :
        IF labels = <<>> THEN <<>>
        ELSE LET ranked(r) == SelectSeq(labels, LAMBDA p : LabelRank(p[1]) = r)
             IN With(ranked(1) \o ranked(2) \o ranked(3), LAMBDA ordered :
                    <<"{">>
                    \o JoinComma([i \in 1..Len(ordered) |->
                                    ordered[i][1] \o <<"=", "\"">> \o ordered[i][2]
                                    \o <<"\"">>])
                    \o <<"}">>))

format_metric(name, labels, value) ==
    S_nagios \o Replace(name, "-", "_") \o format_labels(labels) \o <<" ">> \o value

(***************************************************************************)
(* Command Canonicalizer.                                                  *)
(***************************************************************************)
\* returns [exc, val]: exc is "none" or the exception the code raises
canonical_command(cmd) ==
    With(SplitOn(cmd, "!"), LAMBDA fields :
        IF fields[1] = S_check_nrpe2
        THEN IF Len(fields) >= 2
             THEN [exc |-> "none", val |-> fields[2]]
             ELSE [exc |-> "IndexError", val |-> <<>>]
        ELSE [exc |-> "none", val |-> fields[1]])

(***************************************************************************)
(* Performance-Data Parser.                                                *)
(***************************************************************************)
RECURSIVE ParseFieldsFrom(_, _)
\* the loop of parse_perf_data_fields: `name, values = raw_value.split('=')`
\* raises ValueError unless the split has exactly two parts
ParseFieldsFrom(raw0, fields0) ==
    With(raw0, LAMBDA raw : With(fields0, LAMBDA fields :
        IF raw = <<>> THEN [exc |-> "none", val |-> fields]
        ELSE With(SplitOn(Head(raw), "="), LAMBDA parts :
                IF Len(parts) # 2
                THEN [exc |-> "ValueError", val |-> <<>>]
                ELSE ParseFieldsFrom(Tail(raw),
                         DictSet(fields, parts[1], SplitOn(parts[2], ";"))))))

parse_perf_data_fields(raw_perf_data) == ParseFieldsFrom(raw_perf_data, <<>>)

\* the characters of the class [0-9.] of UNIT_REGEX
NumChars == Digits \cup {"."}

\* UNIT_REGEX.match(raw_value): ([0-9.]+)([^0-9.]+)? anchored at the start
parse_value_and_unit(raw_value0) ==
    With(raw_value0, LAMBDA raw_value :
        With(SpanLen(raw_value, NumChars), LAMBDA n :
            IF n = 0 THEN <<raw_value, <<>>>>
            ELSE With(Tail_n(raw_value, n), LAMBDA rest :
                    <<SubSeq(raw_value, 1, n),
                      SubSeq(rest, 1, SpanLenNot(rest, NumChars))>>)))

\* UNIT_TO_SCALE: a factor is (the product of mul) / 10^shift
UNIT_TO_SCALE ==
    << <<<<"G", "B">>, [mul |-> <<1024, 1024, 1024>>, shift |-> 0]>>,
       <<<<"M", "B">>, [mul |-> <<1024, 1024>>, shift |-> 0]>>,
       <<<<"K", "B">>, [mul |-> <<1024>>, shift |-> 0]>>,
       <<<<"m", "s">>, [mul |-> <<>>, shift |-> 3]>>,
       <<<<"u", "s", "e", "c">>, [mul |-> <<>>, shift |-> 6]>>,
       <<<<"%">>, [mul |-> <<>>, shift |-> 2]>> >>

\* the precision of str() of a float (Python 2: '%.12g')
StrPrecision == 12

\* float(s) for the decimal literals [sign] digits [. digits] and . digits;
\* val is the number (-1)^neg * ds / 10^frac, ds a digit string.
\* (Exponents, inf and nan, which float() also accepts, are not modelled.)
FloatParse(s) ==
    With(Strip(s), LAMBDA t :
        LET signed == t # <<>> /\ Head(t) \in {"-", "+"}
        IN With(IF signed THEN Tail(t) ELSE t, LAMBDA body :
            With(SpanLen(body, Digits), LAMBDA n :
                LET rest == Tail_n(body, n)
                    dotted == rest # <<>> /\ Head(rest) = "."
                IN With(IF dotted THEN Tail(rest) ELSE rest, LAMBDA fracpart :
                    LET ok == /\ n + Len(fracpart) >= 1
                              /\ \A i \in 1..Len(fracpart) : fracpart[i] \in Digits
                    IN [ok |-> ok,
                        neg |-> ok /\ signed /\ Head(t) = "-",
                        ds |-> IF ok THEN SubSeq(body, 1, n) \o fracpart ELSE <<>>,
                        frac |-> IF ok THEN Len(fracpart) ELSE 0]))))

RECURSIVE MulDigits(_, _, _)
\* the digit string ds times the small number k, plus carry
MulDigits(ds0, k, carry0) ==
    With(ds0, LAMBDA ds : With(carry0, LAMBDA carry :
        IF ds = <<>> THEN (IF carry = 0 THEN <<>> ELSE NatToDigits(carry))
        ELSE With(DigitVal(Last(ds)) * k + carry, LAMBDA p :
                MulDigits(Front(ds), k, p \div 10) \o <<DigitChr(p % 10)>>)))

RECURSIVE MulAll(_, _)
\* the digit string ds times every number of ks
MulAll(ds0, ks0) ==
    With(ds0, LAMBDA ds : With(ks0, LAMBDA ks :
        IF ks = <<>> THEN ds ELSE MulAll(MulDigits(ds, Head(ks), 0), Tail(ks))))

StripLeadingZeros(ds0) == With(ds0, LAMBDA ds : Tail_n(ds, SpanLen(ds, {"0"})))

StripTrailingZeros(ds0) ==
    With(ds0, LAMBDA ds :
        With({j \in 1..Len(ds) : ds[j] # "0"}, LAMBDA others :
            IF others = {} THEN <<>> ELSE SubSeq(ds, 1, MaxOf(others))))

Zeros(n) == [i \in 1..n |-> "0"]

RECURSIVE IncDigits(_)
\* the digit string ds plus one
IncDigits(ds0) ==
    With(ds0, LAMBDA ds :
        IF ds = <<>> THEN <<"1">>
        ELSE IF Last(ds) = "9" THEN IncDigits(Front(ds)) \o <<"0">>
        ELSE Front(ds) \o <<DigitChr(DigitVal(Last(ds)) + 1)>>)

\* '%.12g' of the number sign * 0.sig * 10^(exp + 1), sig its significant
\* digits, and '.0' added when the result shows neither a point nor an exponent
FormatG(sign, sig, exp) ==
    IF exp < 0 - 4 \/ exp >= StrPrecision
    THEN sign \o <<Head(sig)>>
         \o (IF Len(sig) > 1 THEN <<".">> \o Tail(sig) ELSE <<>>)
         \o <<"e", IF exp < 0 THEN "-" ELSE "+">>
         \o (IF exp > 0 - 10 /\ exp < 10 THEN <<"0">> ELSE <<>>)
         \o NatToDigits(IF exp < 0 THEN 0 - exp ELSE exp)
    ELSE IF exp < 0
    THEN sign \o <<"0", ".">> \o Zeros(0 - exp - 1) \o sig
    ELSE IF Len(sig) <= exp + 1
    THEN sign \o sig \o Zeros(exp + 1 - Len(sig)) \o <<".", "0">>
    ELSE sign \o SubSeq(sig, 1, exp + 1) \o <<".">> \o Tail_n(sig, exp + 1)

\* str(x) of the float x = (-1)^neg * ds / 10^frac, rounded to StrPrecision
\* significant digits
FloatStr(neg, ds, frac) ==
    With(StripLeadingZeros(ds), LAMBDA sig0 :
        LET sign == IF neg THEN <<"-">> ELSE <<>>
            cut == SubSeq(sig0, 1, Min(Len(sig0), StrPrecision))
            up == Len(sig0) > StrPrecision /\ DigitVal(sig0[StrPrecision + 1]) >= 5
        IN IF sig0 = <<>> THEN sign \o <<"0", ".", "0">>
           ELSE With(IF up THEN IncDigits(cut) ELSE cut, LAMBDA rounded :
                    With(StripTrailingZeros(rounded), LAMBDA sig :
                        FormatG(sign, sig,
                                Len(sig0) - frac - 1
                                + (IF Len(rounded) > StrPrecision THEN 1 ELSE 0)))))

convert_value_to_base_unit(value, unit) ==
    IF unit = <<>> THEN value
    ELSE IF unit \notin DictKeys(UNIT_TO_SCALE) THEN value
    ELSE With(FloatParse(value), LAMBDA f :
            With(DictGet(UNIT_TO_SCALE, unit, [mul |-> <<>>, shift |-> 0]),
                 LAMBDA scale :
                    IF ~f.ok THEN value \o unit
                    ELSE FloatStr(f.neg, MulAll(f.ds, scale.mul),
                                  f.frac + scale.shift)))

\* one pass of the inner loop of get_perf_data: the metric of position i
perf_metric(check_command, labels, raw_values, unit, field_name, i) ==
    <<check_command \o S_perf_data \o (<<"_">> \o field_name),
      labels,
      convert_value_to_base_unit(parse_value_and_unit(raw_values[i])[1], unit)>>

RECURSIVE PerfFields(_, _, _, _, _, _)
\* the inner loop of get_perf_data over enumerate(field_names), from position i;
\* raw_values[i] raises IndexError when the key carries no value at position i
PerfFields(check_command, labels, raw_values, unit, field_names, i) ==
    IF i > Len(field_names) THEN [exc |-> "none", val |-> <<>>]
    ELSE IF field_names[i] = <<>>
    THEN PerfFields(check_command, labels, raw_values, unit, field_names, i + 1)
    ELSE IF i > Len(raw_values) THEN [exc |-> "IndexError", val |-> <<>>]
    ELSE With(PerfFields(check_command, labels, raw_values, unit, field_names, i + 1),
              LAMBDA more :
                IF more.exc # "none" THEN more
                ELSE [exc |-> "none",
                      val |-> <<perf_metric(check_command, labels, raw_values, unit,
                                            field_names[i], i)>> \o more.val])

\* one pass of the outer loop of get_perf_data, for one (key, raw_values) item
perf_key(check_command, metric_labels, item, names_map) ==
    With(DictUpdate(<< <<S_key, item[1]>> >>, metric_labels), LAMBDA labels :
        With(parse_value_and_unit(item[2][1])[2], LAMBDA unit :
            With(DictGet(names_map, check_command, <<S_value>>), LAMBDA field_names :
                PerfFields(check_command, labels, item[2], unit, field_names, 1))))

RECURSIVE PerfKeys(_, _, _, _)
\* the outer loop of get_perf_data over values_map.iteritems()
PerfKeys(check_command, metric_labels, values_map0, names_map) ==
    With(values_map0, LAMBDA values_map :
        IF values_map = <<>> THEN [exc |-> "none", val |-> <<>>]
        ELSE With(perf_key(check_command, metric_labels, Head(values_map), names_map),
                  LAMBDA here :
                    IF here.exc # "none" THEN here
                    ELSE With(PerfKeys(check_command, metric_labels,
                                       Tail(values_map), names_map),
                              LAMBDA more :
                                IF more.exc # "none" THEN more
                                ELSE [exc |-> "none", val |-> here.val \o more.val])))

\* returns [exc, val]: val is the list of (name, labels, value) tuples
get_perf_data(check_command0, metric_labels0, raw_perf_data_values, raw_perf_data_names) ==
    With(parse_perf_data_fields(raw_perf_data_values), LAMBDA values_map :
        With(parse_perf_data_fields(raw_perf_data_names), LAMBDA names_map :
            With(<<check_command0, metric_labels0>>, LAMBDA a :
                IF values_map.exc # "none" THEN values_map
                ELSE IF names_map.exc # "none" THEN names_map
                ELSE PerfKeys(a[1], a[2], values_map.val, names_map.val))))

(***************************************************************************)
(* Wire Codec: bytes, the fixed16 header and the JSON payload.             *)
(***************************************************************************)
\* a byte that is one character of text
Chr(c) == [t |-> "chr", v |-> <<c>>]

\* the bytes of a JSON lexeme: the brackets, and a scalar carrying its text
\* (a number is carried by its text, which is what '%s' prints)
LB == [t |-> "[", v |-> <<>>]

RB == [t |-> "]", v |-> <<>>]

Sc(chars) == [t |-> "scalar", v |-> chars]

BytesOf(chars) == [i \in 1..Len(chars) |-> Chr(chars[i])]

\* the text a sequence of bytes holds
TextOf(bytes0) ==
    With(bytes0, LAMBDA bytes : Concat([i \in 1..Len(bytes) |-> bytes[i].v]))

\* a decoded JSON value: a scalar or a list of values
Scalar(v) == [k |-> "s", v |-> v, items |-> <<>>]

List(items) == [k |-> "l", v |-> <<>>, items |-> items]

RECURSIVE ParseVal(_, _)
RECURSIVE ParseItems(_, _, _)
\* one JSON value of toks from position i: [ok, val, next]
ParseVal(toks, i) ==
    IF i > Len(toks) THEN [ok |-> FALSE, val |-> Scalar(<<>>), next |-> i]
    ELSE IF toks[i].t = "scalar"
    THEN [ok |-> TRUE, val |-> Scalar(toks[i].v), next |-> i + 1]
    ELSE IF toks[i].t = "[" THEN ParseItems(toks, i + 1, <<>>)
    ELSE [ok |-> FALSE, val |-> Scalar(<<>>), next |-> i]

\* the items of a list up to its closing bracket
ParseItems(toks, i0, acc0) ==
    With(i0, LAMBDA i : With(acc0, LAMBDA acc :
        IF i > Len(toks) THEN [ok |-> FALSE, val |-> Scalar(<<>>), next |-> i]
        ELSE IF toks[i].t = "]" THEN [ok |-> TRUE, val |-> List(acc), next |-> i + 1]
        ELSE With(ParseVal(toks, i), LAMBDA r :
                IF r.ok THEN ParseItems(toks, r.next, Append(acc, r.val)) ELSE r)))

\* json.loads(data): ValueError unless data is exactly one value
json_loads(data0) ==
    With(data0, LAMBDA data :
        With(ParseVal(data, 1), LAMBDA r :
            IF r.ok /\ r.next = Len(data) + 1
            THEN [exc |-> "none", val |-> r.val]
            ELSE [exc |-> "ValueError", val |-> Scalar(<<>>)]))

\* the directives LiveStatus.query appends to every query
Directives == "\nOutputFormat: json\nResponseHeader: fixed16\n"

RECURSIVE JoinSpace(_)
\* ' '.join(names)
JoinSpace(names0) ==
    With(names0, LAMBDA names :
        IF Len(names) = 1 THEN names[1]
        ELSE names[1] \o " " \o JoinSpace(Tail(names)))

StatusQuery == "GET status"

ServicesQuery == "GET services\nColumns: " \o JoinSpace(COLUMNS)

(***************************************************************************)
(* Collection Orchestrator: the pure parts.                                *)
(***************************************************************************)
RECURSIVE ZipDict(_, _, _)
\* dict(zip(names, values)): pairs up to the shorter list; a list cannot be a key
ZipDict(names0, values0, d0) ==
    With(<<names0, values0, d0>>, LAMBDA a :
        LET names == a[1]
            values == a[2]
            d == a[3]
        IN IF names = <<>> \/ values = <<>> THEN [exc |-> "none", val |-> d]
           ELSE IF Head(names).k # "s" THEN [exc |-> "TypeError", val |-> <<>>]
           ELSE ZipDict(Tail(names), Tail(values),
                        DictSet(d, Head(names).v, Head(values).v)))

\* get_status after the query returned `status`: [exc, val], val the lines.
\* (iteritems() is modelled in insertion order.)
get_status(status0) ==
    With(status0, LAMBDA status :
        IF status.k # "l" THEN [exc |-> "TypeError", val |-> <<>>]
        ELSE IF Len(status.items) < 2 THEN [exc |-> "IndexError", val |-> <<>>]
        ELSE IF status.items[1].k # "l" \/ status.items[2].k # "l"
        THEN [exc |-> "TypeError", val |-> <<>>]
        ELSE With(ZipDict(status.items[1].items, status.items[2].items, <<>>),
                  LAMBDA values :
                    IF values.exc # "none" THEN values
                    ELSE [exc |-> "none",
                          val |-> [i \in 1..Len(values.val) |->
                                     Line(format_metric(values.val[i][1], <<>>,
                                                        values.val[i][2]),
                                          "status")]]))

\* the field of Service record s (a row of the reply) named by a column
Field(s, name) == s.items[Col(name)].v

\* standard_lines with latency reported before exec_time
standard_lines_Swapped(s, cmd, labels) ==
    LET m(suffix, column) ==
            Line(format_metric(cmd \o suffix, labels, Field(s, column)), "service")
    IN << m(<<"_", "l", "a", "t", "e", "n", "c", "y">>, "latency"),
          m(<<"_", "e", "x", "e", "c", "_", "t", "i", "m", "e">>, "execution_time"),
          m(<<"_", "s", "t", "a", "t", "e">>, "state"),
          m(<<"_", "f", "l", "a", "p", "p", "i", "n", "g">>, "is_flapping"),
          m(<<"_", "a", "c", "k", "n", "o", "w", "l", "e", "d", "g", "e", "d">>, "acknowledged") >>

\* the five lines get_services appends for every record
standard_lines(s, cmd, labels) ==
    LET m(suffix, column) ==
            Line(format_metric(cmd \o suffix, labels, Field(s, column)), "service")
    IN << m(<<"_", "e", "x", "e", "c", "_", "t", "i", "m", "e">>, "execution_time"),
          m(<<"_", "l", "a", "t", "e", "n", "c", "y">>, "latency"),
          m(<<"_", "s", "t", "a", "t", "e">>, "state"),
          m(<<"_", "f", "l", "a", "p", "p", "i", "n", "g">>, "is_flapping"),
          m(<<"_", "a", "c", "k", "n", "o", "w", "l", "e", "d", "g", "e", "d">>, "acknowledged") >>

\* the lines of the performance data of one record: [exc, val]
perf_lines(s, cmd, labels, raw_perf_data_names) ==
    With(get_perf_data(cmd, labels, SplitWs(Field(s, "perf_data")),
                       raw_perf_data_names),
         LAMBDA values :
            IF values.exc # "none" THEN [exc |-> values.exc, val |-> <<>>]
            ELSE [exc |-> "none",
                  val |-> [i \in 1..Len(values.val) |->
                             Line(format_metric(values.val[i][1], values.val[i][2],
                                                values.val[i][3]), "service")]])

\* the lines get_services appends for one record: [exc, val]
service_lines(s0, use_perf_data, raw_perf_data_names) ==
    With(s0, LAMBDA s :
        With(<< <<S_hostname, Field(s, "host_name")>>,
                <<S_service, Field(s, "service_description")>> >>, LAMBDA labels :
            With(canonical_command(Field(s, "check_command")), LAMBDA cmd :
                IF cmd.exc # "none" THEN [exc |-> cmd.exc, val |-> <<>>]
                ELSE IF use_perf_data /\ Field(s, "perf_data") # <<>>
                THEN With(perf_lines(s, cmd.val, labels, raw_perf_data_names),
                          LAMBDA perf :
                            IF perf.exc # "none" THEN perf
                            ELSE [exc |-> "none",
                                  val |-> standard_lines(s, cmd.val, labels)
                                          \o perf.val])
                ELSE [exc |-> "none", val |-> standard_lines(s, cmd.val, labels)])))

RECURSIVE ServicesLoop(_, _, _)
\* the loop of get_services over the records
ServicesLoop(services0, use_perf_data, raw_perf_data_names) ==
    With(services0, LAMBDA services :
        IF services = <<>> THEN [exc |-> "none", val |-> <<>>]
        ELSE With(service_lines(Head(services), use_perf_data, raw_perf_data_names),
                  LAMBDA here :
                    IF here.exc # "none" THEN here
                    ELSE With(ServicesLoop(Tail(services), use_perf_data,
                                           raw_perf_data_names),
                              LAMBDA more :
                                IF more.exc # "none" THEN more
                                ELSE [exc |-> "none", val |-> here.val \o more.val])))

\* get_services after the query returned `rows`: Service(*s) takes exactly
\* one value per column
get_services(rows0, use_perf_data, raw_perf_data_names) ==
    With(rows0, LAMBDA rows :
        IF rows.k # "l" THEN [exc |-> "TypeError", val |-> <<>>]
        ELSE IF \E i \in 1..Len(rows.items) :
                   \/ rows.items[i].k # "l"
                   \/ Len(rows.items[i].items) # Len(COLUMNS)
        THEN [exc |-> "TypeError", val |-> <<>>]
        ELSE ServicesLoop(rows.items, use_perf_data, raw_perf_data_names))

RECURSIVE WhitelistLoop(_, _)
\* for whitelist in args.whitelist: lines.extend(filter(... whitelist in x ...))
WhitelistLoop(whitelist0, services) ==
    With(whitelist0, LAMBDA whitelist :
        IF whitelist = <<>> THEN <<>>
        ELSE SelectSeq(services, LAMBDA x : IsSubstring(Head(whitelist), x.text))
             \o WhitelistLoop(Tail(whitelist), services))

\* select_services with the whitelist ignored
select_services_NoFilter(whitelist, services) == services

\* what collect_metrics appends to lines once get_services has returned;
\* an absent --whitelist (None) is the empty sequence
select_services(whitelist, services) ==
    IF whitelist # <<>> THEN WhitelistLoop(whitelist, services) ELSE services

\* wants_services with the opt-in dropped
wants_services_Always(a) == TRUE

\* the condition under which collect_metrics queries the services at all
wants_services(a) == a.whitelist # <<>> \/ a.all_metrics \/ a.dump_metrics

(***************************************************************************)
(* The remote: the replies a livestatus socket is given to send.           *)
(***************************************************************************)
RECURSIVE Encode(_)
RECURSIVE EncodeAll(_)
\* json.dumps(value), in lexemes
Encode(value0) ==
    With(value0, LAMBDA value :
        IF value.k = "s" THEN <<Sc(value.v)>>
        ELSE <<LB>> \o EncodeAll(value.items) \o <<RB>>)

EncodeAll(values0) ==
    With(values0, LAMBDA values :
        IF values = <<>> THEN <<>>
        ELSE Encode(Head(values)) \o EncodeAll(Tail(values)))

\* fixed16(code, length) of the tests: "%s %11d\n"
Fixed16(code, length) ==
    LET ds == NatToDigits(length)
    IN code \o <<" ">> \o [i \in 1..(11 - Len(ds)) |-> " "] \o ds \o <<"\n">>

\* a well-framed reply: the header, then the payload it declares
Reply(code, payload) == BytesOf(Fixed16(code, Len(payload))) \o payload

\* a services row, its values in the order of COLUMNS
Row(host_name, service_description, state, latency, perf_data, process_performance_data, check_command, acknowledged, execution_time, is_flapping) ==
    List(<<Scalar(host_name), Scalar(service_description), Scalar(state),
           Scalar(latency), Scalar(perf_data), Scalar(process_performance_data),
           Scalar(check_command), Scalar(acknowledged), Scalar(execution_time),
           Scalar(is_flapping)>>)

RowLoad == Row(<<"h">>, <<"s">>, <<"2">>, <<"7">>, <<"a", "=", "1", "M", "B", ";", "2">>, <<"1">>, <<"c", "k", "!", "5">>, <<"1">>, <<"9">>, <<"0">>)

RowNrpe == Row(<<"h">>, <<"t">>, <<"0">>, <<"3">>, <<>>, <<"0">>, <<"c", "h", "e", "c", "k", "_", "n", "r", "p", "e", "2", "!", "c", "-", "n">>, <<"0">>, <<"4">>, <<"1">>)

\* performance data whose token has no '='
RowPerfNoEq == Row(<<"h">>, <<"s">>, <<"0">>, <<"7">>, <<"a">>, <<"1">>, <<"c", "k">>, <<"0">>, <<"9">>, <<"0">>)

\* performance data whose token has two '='
RowPerfTwoEq == Row(<<"h">>, <<"s">>, <<"0">>, <<"7">>, <<"a", "=", "1", "=", "2">>, <<"1">>, <<"c", "k">>, <<"0">>, <<"9">>, <<"0">>)

\* the remote-check wrapper with no wrapped command
RowBareNrpe == Row(<<"h">>, <<"s">>, <<"0">>, <<"7">>, <<>>, <<"1">>, <<"c", "h", "e", "c", "k", "_", "n", "r", "p", "e", "2">>, <<"0">>, <<"9">>, <<"0">>)

\* a row one column short
RowShort == List(SubSeq(RowLoad.items, 1, Len(COLUMNS) - 1))

StatusGood == List(<<List(<<Scalar(<<"u", "p">>), Scalar(<<"a", "-", "b">>)>>),
                     List(<<Scalar(<<"1">>), Scalar(<<"0">>)>>)>>)

\* a status reply of a single row
StatusOneRow == List(<<List(<<Scalar(<<"u", "p">>)>>)>>)

\* 16 header bytes that do not split into a code and a numeric length
HeaderOneField == BytesOf(<<"2", "0", "0", " ", " ", " ", " ", " ", " ", " ", " ", " ", " ", " ", " ", " ">>)

HeaderThreeFields == BytesOf(<<"2", "0", "0", " ", " ", " ", " ", " ", "1", " ", " ", " ", " ", " ", "2", "\n">>)

HeaderBadLength == BytesOf(<<"2", "0", "0", " ", " ", " ", " ", " ", " ", " ", " ", " ", " ", " ", "x", "\n">>)

ErrorText == BytesOf(<<" ", "n", "o", "\n">>)

StatusReplies ==
    { Reply(<<"2", "0", "0">>, Encode(StatusGood)),
      Reply(<<"2", "0", "0">>, Encode(StatusOneRow)),
      Reply(<<"2", "0", "0">>, <<LB, LB>>),
      Reply(<<"4", "0", "0">>, ErrorText),
      HeaderOneField, HeaderThreeFields, HeaderBadLength }

ServicesReplies ==
    { Reply(<<"2", "0", "0">>, Encode(List(<<>>))),
      Reply(<<"2", "0", "0">>, Encode(List(<<RowLoad>>))),
      Reply(<<"2", "0", "0">>, Encode(List(<<RowLoad, RowNrpe>>))),
      Reply(<<"2", "0", "0">>, Encode(List(<<RowPerfNoEq>>))),
      Reply(<<"2", "0", "0">>, Encode(List(<<RowPerfTwoEq>>))),
      Reply(<<"2", "0", "0">>, Encode(List(<<RowBareNrpe>>))),
      Reply(<<"2", "0", "0">>, Encode(List(<<RowShort>>))),
      Reply(<<"2", "0", "0">>, <<RB>>),
      Reply(<<"4", "0", "4">>, ErrorText),
      HeaderOneField }

Replies(ph) == IF ph = "status" THEN StatusReplies ELSE ServicesReplies

(***************************************************************************)
(* The configuration (the parsed command line).                            *)
(***************************************************************************)
\* --path
Path == <<"/", "p">>

\* --whitelist patterns
Patterns == {<<"_", "s", "t", "a", "t", "e">>, <<"c", "_", "n", "_">>}

\* args.whitelist: None (the empty sequence) or the patterns in flag order
Whitelists == UNION {[1..n -> Patterns] : n \in 0..MaxWhitelist}

\* --data_names: none; names for both values of a token; a name at a position
\* beyond the values; a hint with no '='
DataNames == { <<>>, <<<<"c", "k", "=", "u", ";", "f">>>>, <<<<"c", "k", "=", "u", ";", ";", "t">>>>, <<<<"c", "k">>>> }

Args ==
    [path_exists : BOOLEAN, whitelist : Whitelists, all_metrics : BOOLEAN,
     dump_metrics : BOOLEAN, use_perf_data : BOOLEAN, data_names : DataNames]

(***************************************************************************)
(* State: one call of metrics(args).                                       *)
(***************************************************************************)
VARIABLES
    args,       \* the configuration
    pc,         \* where the call is: start, connect, send, shutdown, recv, done, fault
    phase,      \* which query collect_metrics is in: none, status, services
    lines,      \* the list `lines` of metrics()
    conns,      \* every socket connect() returned, in order: [open, sent, shut, read]
    stream,     \* the bytes the remote has still to deliver on the current socket
    stage,      \* which _receive of query() runs: header or payload
    count,      \* `count` of _receive
    results,    \* `results` of _receive, joined
    code,       \* `code` of query()
    length,     \* `length` of query()
    status_out, \* what get_status returned
    services,   \* `services` of collect_metrics
    raised,     \* the exception raised, if any: [kind, msg]
    conv        \* a call of convert_value_to_base_unit on its own: [value, unit, ret, pc]

vars == <<args, pc, phase, lines, conns, stream, stage, count, results, code,
          length, status_out, services, raised, conv>>

\* no call of convert_value_to_base_unit on its own is under way
NoCall == [value |-> <<>>, unit |-> <<>>, ret |-> <<>>, pc |-> "none"]

S_socket_error == <<"s", "o", "c", "k", "e", "t", " ", "e", "r", "r", "o", "r">>

Init ==
    /\ args \in Args
    /\ pc = "start"
    /\ phase = "none"
    /\ lines = <<>>
    /\ conns = <<>>
    /\ stream = <<>>
    /\ stage = "header"
    /\ count = 0
    /\ results = <<>>
    /\ code = <<>>
    /\ length = 0
    /\ status_out = <<>>
    /\ services = <<>>
    /\ raised = [kind |-> "none", msg |-> <<>>]
    /\ conv = NoCall

\* the socket of the running `with` block is the last one connected
sock == Len(conns)

\* Closed with the close forgotten
Closed_Leak(cs) == cs

\* sock.close() on leaving the `with contextlib.closing(...)` block
Closed(cs) == [cs EXCEPT ![Len(cs)].open = FALSE]

\* An exception of `kind` leaves collect_metrics: the `with` block, if one is
\* entered, closes its socket; metrics() catches a NagiosError and appends the
\* failure sentinel; any other exception leaves metrics() too.
Raise(kind, msg, in_with) ==
    /\ raised' = [kind |-> kind, msg |-> msg]
    /\ conns' = IF in_with THEN Closed(conns) ELSE conns
    /\ IF kind \in NagiosErrors
       THEN /\ lines' = Append(lines, Line(S_success0, "sentinel"))
            /\ pc' = "done"
       ELSE /\ lines' = lines
            /\ pc' = "fault"

\* the sizes of the chunk a recv(n) may hand over
ChunkSizes(n) == {k \in 1..n : k <= MaxChunk \/ k = n}

(***************************************************************************)
(* Actions.                                                                *)
(***************************************************************************)
\* MissingSocket with the `return` forgotten: the collection goes on to connect
MissingSocket_NoReturn ==
    /\ pc = "start"
    /\ ~args.path_exists
    /\ lines' = lines \o <<Line(S_no_socket \o Path, "comment"),
                           Line(S_available0, "sentinel")>>
    /\ pc' = "connect"
    /\ phase' = "status"
    /\ UNCHANGED <<args, conv, conns, stream, stage, count, results, code, length,
                   status_out, services, raised>>

\* collect_metrics when os.path.exists(args.path) is false, and the return
\* through metrics()
MissingSocket ==
    /\ pc = "start"
    /\ ~args.path_exists
    /\ lines' = lines \o <<Line(S_no_socket \o Path, "comment"),
                           Line(S_available0, "sentinel"),
                           Line(S_success1, "sentinel")>>
    /\ pc' = "done"
    /\ UNCHANGED <<args, conv, phase, conns, stream, stage, count, results, code,
                   length, status_out, services, raised>>

\* collect_metrics when the path exists, up to the first connect
Begin ==
    /\ pc = "start"
    /\ args.path_exists
    /\ lines' = Append(lines, Line(S_available1, "sentinel"))
    /\ pc' = "connect"
    /\ phase' = "status"
    /\ UNCHANGED <<args, conv, conns, stream, stage, count, results, code, length,
                   status_out, services, raised>>

\* connect(path) succeeds; the remote is one of those the model knows
Connect ==
    /\ pc = "connect"
    /\ conns' = Append(conns, [open |-> TRUE, sent |-> <<>>, shut |-> FALSE,
                               read |-> FALSE])
    /\ \E r \in Replies(phase) : stream' = r
    /\ pc' = "send"
    /\ UNCHANGED <<args, conv, phase, lines, stage, count, results, code, length,
                   status_out, services, raised>>

\* ConnectFail with a retry: the error is noted and connect is tried again
ConnectFail_Retry ==
    /\ pc = "connect"
    /\ raised' = [kind |-> "NagiosConnectError", msg |-> S_socket_error]
    /\ UNCHANGED <<args, conv, pc, phase, lines, conns, stream, stage, count, results,
                   code, length, status_out, services>>

\* connect(path) raises socket.error
ConnectFail ==
    /\ pc = "connect"
    /\ Raise("NagiosConnectError", S_socket_error, FALSE)
    /\ UNCHANGED <<args, conv, phase, stream, stage, count, results, code, length,
                   status_out, services>>

\* query(): the directives are appended and _send succeeds
Send ==
    /\ pc = "send"
    /\ conns' = [conns EXCEPT ![sock].sent =
                    Append(@, (IF phase = "status" THEN StatusQuery
                               ELSE ServicesQuery) \o Directives)]
    /\ pc' = "shutdown"
    /\ UNCHANGED <<args, conv, phase, lines, stream, stage, count, results, code,
                   length, status_out, services, raised>>

\* sendall raises socket.error
SendFail ==
    /\ pc = "send"
    /\ Raise("NagiosQueryError", S_socket_error, TRUE)
    /\ UNCHANGED <<args, conv, phase, stream, stage, count, results, code, length,
                   status_out, services>>

\* shutdown(SHUT_WR), and the call of _receive(16)
Shutdown ==
    /\ pc = "shutdown"
    /\ conns' = [conns EXCEPT ![sock].shut = TRUE]
    /\ pc' = "recv"
    /\ stage' = "header"
    /\ count' = HeaderLen
    /\ results' = <<>>
    /\ UNCHANGED <<args, conv, phase, lines, stream, code, length, status_out,
                   services, raised>>

\* shutdown raises socket.error, which query() does not catch
ShutdownFail ==
    /\ pc = "shutdown"
    /\ Raise("socket.error", S_socket_error, TRUE)
    /\ UNCHANGED <<args, conv, phase, stream, stage, count, results, code, length,
                   status_out, services>>

\* Recv with the chunk put in front of what was read before
Recv_OutOfOrder ==
    /\ pc = "recv"
    /\ count > 0
    /\ stream # <<>>
    /\ \E k \in ChunkSizes(Min(count, Len(stream))) :
          /\ results' = SubSeq(stream, 1, k) \o results
          /\ stream' = Tail_n(stream, k)
          /\ count' = count - k
    /\ conns' = [conns EXCEPT ![sock].read = TRUE]
    /\ UNCHANGED <<args, conv, pc, phase, lines, stage, code, length, status_out,
                   services, raised>>

\* one pass of the loop of _receive: recv(count) hands over k bytes
Recv ==
    /\ pc = "recv"
    /\ count > 0
    /\ stream # <<>>
    /\ \E k \in ChunkSizes(Min(count, Len(stream))) :
          /\ results' = results \o SubSeq(stream, 1, k)
          /\ stream' = Tail_n(stream, k)
          /\ count' = count - k
    /\ conns' = [conns EXCEPT ![sock].read = TRUE]
    /\ UNCHANGED <<args, conv, pc, phase, lines, stage, code, length, status_out,
                   services, raised>>

\* RecvEof with the error of the wrong kind
RecvEof_AsQueryError ==
    /\ pc = "recv"
    /\ count > 0
    /\ Raise("NagiosQueryError", S_recv_failed, TRUE)
    /\ UNCHANGED <<args, conv, phase, stream, stage, count, results, code, length,
                   status_out, services>>

\* recv(count) returns no byte: the remote has closed the stream
RecvEof ==
    /\ pc = "recv"
    /\ count > 0
    /\ Raise("NagiosResponseError", S_recv_failed, TRUE)
    /\ UNCHANGED <<args, conv, phase, stream, stage, count, results, code, length,
                   status_out, services>>

\* recv(count) raises socket.error (a timeout is one)
RecvError ==
    /\ pc = "recv"
    /\ count > 0
    /\ Raise("NagiosResponseError", S_socket_error, TRUE)
    /\ UNCHANGED <<args, conv, phase, stream, stage, count, results, code, length,
                   status_out, services>>

\* _receive(16) returns: the header is split, and _receive(length) is called
HeaderDone ==
    /\ pc = "recv"
    /\ stage = "header"
    /\ count <= 0
    /\ LET fields == SplitWs(TextOf(results))
           n == IF Len(fields) = 2 THEN IntParse(fields[2])
                ELSE [ok |-> FALSE, val |-> 0]
       IN IF n.ok
          THEN /\ code' = fields[1]
               /\ length' = n.val
               /\ count' = n.val
               /\ results' = <<>>
               /\ stage' = "payload"
               /\ UNCHANGED <<pc, lines, conns, raised>>
          ELSE /\ Raise("ValueError", <<>>, TRUE)
               /\ UNCHANGED <<code, length, count, results, stage>>
    /\ UNCHANGED <<args, conv, phase, stream, status_out, services>>

\* what query() does once _receive(length) has returned `data`: [exc, msg, val]
query_result(c, data) ==
    IF c = <<"2", "0", "0">>
    THEN LET r == json_loads(data)
         IN [exc |-> r.exc, msg |-> <<>>, val |-> r.val]
    ELSE [exc |-> "NagiosResponseError",
          msg |-> S_livestatus_error \o c \o <<":", " ">> \o Strip(TextOf(data)),
          val |-> Scalar(<<>>)]

\* the status query returns: get_status, the end of the first `with` block,
\* and, when no services are wanted, the return through metrics()
StatusDone ==
    /\ pc = "recv"
    /\ stage = "payload"
    /\ phase = "status"
    /\ count <= 0
    /\ LET q == query_result(code, results)
           st == get_status(q.val)
       IN IF q.exc # "none"
          THEN /\ Raise(q.exc, q.msg, TRUE)
               /\ UNCHANGED <<phase, status_out, stage, count, results, code, length>>
          ELSE IF st.exc # "none"
          THEN /\ Raise(st.exc, <<>>, TRUE)
               /\ UNCHANGED <<phase, status_out, stage, count, results, code, length>>
          ELSE /\ status_out' = st.val
               /\ conns' = Closed(conns)
               /\ raised' = raised
               \* the locals of query() and _receive are gone
               /\ stage' = "header"
               /\ count' = 0
               /\ results' = <<>>
               /\ code' = <<>>
               /\ length' = 0
               /\ IF wants_services(args)
                  THEN /\ lines' = lines \o st.val
                       /\ phase' = "services"
                       /\ pc' = "connect"
                  ELSE /\ lines' = (lines \o st.val)
                                   \o <<Line(S_success1, "sentinel")>>
                       /\ phase' = phase
                       /\ pc' = "done"
    /\ UNCHANGED <<args, conv, stream, services>>

\* the services query returns: get_services, the end of the second `with`
\* block, the selection, and the return through metrics()
ServicesDone ==
    /\ pc = "recv"
    /\ stage = "payload"
    /\ phase = "services"
    /\ count <= 0
    /\ LET q == query_result(code, results)
           sv == get_services(q.val, args.use_perf_data, args.data_names)
       IN IF q.exc # "none"
          THEN /\ Raise(q.exc, q.msg, TRUE)
               /\ UNCHANGED services
          ELSE IF sv.exc # "none"
          THEN /\ Raise(sv.exc, <<>>, TRUE)
               /\ UNCHANGED services
          ELSE /\ services' = sv.val
               /\ conns' = Closed(conns)
               /\ raised' = raised
               /\ lines' = (lines \o select_services(args.whitelist, sv.val))
                           \o <<Line(S_success1, "sentinel")>>
               /\ pc' = "done"
    /\ UNCHANGED <<args, conv, phase, stream, stage, count, results, code, length,
                   status_out>>

Next ==
    \/ MissingSocket
    \/ Begin
    \/ Connect
    \/ ConnectFail
    \/ Send
    \/ SendFail
    \/ Shutdown
    \/ ShutdownFail
    \/ Recv
    \/ RecvEof
    \/ RecvError
    \/ HeaderDone
    \/ StatusDone
    \/ ServicesDone

Spec == Init /\ [][Next]_vars

\* The configurations under which the steps of query() are followed: query()
\* reads nothing of args, which only decide (through dump_metrics) whether the
\* services query is made and (through use_perf_data) how its rows are rendered.
QueryInit ==
    /\ Init
    /\ args.whitelist = <<>> /\ ~args.all_metrics /\ args.data_names = <<>>

\* The call is one sequential thread and every socket operation returns: the
\* socket has a timeout (settimeout(MAX_SOCKET_WAIT)), so a read hands over
\* data, the end of the stream, or an error.  Hence a step is always taken.
FairSpec == QueryInit /\ [][Next]_vars /\ WF_vars(Next)

(***************************************************************************)
(* convert_value_to_base_unit on its own: the arguments are drawn from     *)
(* bounded sets and the function is applied once.                          *)
(***************************************************************************)
\* the longest value string that is enumerated
MaxValueLen == 3

\* the characters the enumerated values are made of
ValueChars == {"0", "2", "5", ".", "-", "v"}

\* values of the tests, and values long enough for str() to round or to
\* switch to an exponent
ValueSamples ==
    { <<"2", "4", "0", "0">>, <<"v", "3", ".", "1">>, <<"0", ".", "3", "2", "3">>,
      <<"0", ".", "3", ".", "1">>, <<"9", "9", "9", "9", "9", "9">>,
      <<"1", "2", "3", "4", "5", "6", ".", "1", "2", "7">>,
      <<"0", ".", "0", "0", "0", "0", "2">> }

ConvValues == UNION {[1..n -> ValueChars] : n \in 0..MaxValueLen} \cup ValueSamples

\* the units of UNIT_TO_SCALE, no unit, and units that are not recognized
ConvUnits ==
    DictKeys(UNIT_TO_SCALE) \cup {<<>>, <<"h", "z">>, <<"k", "b">>, <<"s">>}

ConvInit ==
    /\ conv \in [value : ConvValues, unit : ConvUnits, ret : {<<>>}, pc : {"call"}]
    /\ args = [path_exists |-> FALSE, whitelist |-> <<>>, all_metrics |-> FALSE,
               dump_metrics |-> FALSE, use_perf_data |-> FALSE, data_names |-> <<>>]
    /\ pc = "done"
    /\ phase = "none"
    /\ lines = <<>>
    /\ conns = <<>>
    /\ stream = <<>>
    /\ stage = "header"
    /\ count = 0
    /\ results = <<>>
    /\ code = <<>>
    /\ length = 0
    /\ status_out = <<>>
    /\ services = <<>>
    /\ raised = [kind |-> "none", msg |-> <<>>]

\* convert_value_to_base_unit with the unit's scale ignored
Convert_Unscaled ==
    /\ conv.pc = "call"
    /\ conv' = [conv EXCEPT !.ret = conv.value, !.pc = "returned"]
    /\ UNCHANGED <<args, pc, phase, lines, conns, stream, stage, count, results,
                   code, length, status_out, services, raised>>

\* the call of convert_value_to_base_unit(value, unit) and its return
Convert ==
    /\ conv.pc = "call"
    /\ conv' = [conv EXCEPT !.ret = convert_value_to_base_unit(conv.value, conv.unit),
                            !.pc = "returned"]
    /\ UNCHANGED <<args, pc, phase, lines, conns, stream, stage, count, results,
                   code, length, status_out, services, raised>>

ConvNext == Convert

ConvSpec == ConvInit /\ [][ConvNext]_vars

(***************************************************************************)
(* Properties.                                                             *)
(***************************************************************************)
\* the call of metrics() is over: it returned a response, or an exception left it
Over == pc \in {"done", "fault"}

\* the texts of the lines of a given origin that are in the output
OutTexts(src) == {lines[i].text : i \in {j \in 1..Len(lines) : lines[j].src = src}}

\* the number of success sentinels in the output
Successes == Cardinality({i \in 1..Len(lines) : lines[i].text \in {S_success0, S_success1}})

\* the services query returned rows and get_services returned its lines
ServicesReturned == pc = "done" /\ phase = "services" /\ raised.kind = "none"

\* C1: with a missing socket path, collect_metrics appends only the comment
\* line and `nagios_livestatus_available 0` (metrics() then adds its success
\* sentinel), opens no connection, sends no query, and the output holds no
\* status- or service-derived line, whatever the other options are.
C1_MissingSocket ==
    (~args.path_exists /\ pc # "start") =>
        /\ pc = "done"
        /\ lines = <<Line(S_no_socket \o Path, "comment"),
                     Line(S_available0, "sentinel"),
                     Line(S_success1, "sentinel")>>
        /\ conns = <<>>
        /\ OutTexts("status") = {} /\ OutTexts("service") = {}

C1_Witness ==
    /\ ~args.path_exists /\ pc = "done"
    /\ args.whitelist # <<>> /\ args.all_metrics /\ args.dump_metrics
    /\ args.use_perf_data /\ args.data_names # <<>>

\* C2 (as claimed): every run of metrics() ends with exactly one success
\* sentinel as its last line, `nagios_exporter_success 0` exactly when a
\* connect, query or response error was raised and `nagios_exporter_success 1`
\* otherwise.  (A failure of the half-close itself is left aside.)
C2_SentinelLast ==
    (Over /\ raised.kind # "socket.error") =>
        /\ lines # <<>>
        /\ Last(lines) = Line(IF raised.kind \in NagiosErrors THEN S_success0
                              ELSE S_success1, "sentinel")
        /\ Successes = 1

\* C3 (as claimed): whatever reply the remote sends, no fault leaves
\* metrics(): the call ends with a response.  (A failure of the half-close
\* itself is no reply and is left aside.)
C3_NoFaultOnAnyReply == pc = "fault" => raised.kind = "socket.error"

\* the collection has read a services reply that get_services renders without
\* error when performance data is left out
RendersWithoutPerfData ==
    /\ phase = "services" /\ stage = "payload" /\ count <= 0
    /\ code = <<"2", "0", "0">>
    /\ json_loads(results).exc = "none"
    /\ get_services(json_loads(results).val, FALSE, <<>>).exc = "none"

\* C4 (as claimed): parsing performance data never aborts a collection: a
\* collection whose services reply renders without performance data ends
\* with `nagios_exporter_success 1` with performance data too, for every
\* performance-data string and every list of field-name hints.
C4_PerfDataNeverAborts ==
    (Over /\ RendersWithoutPerfData) =>
        (pc = "done" /\ Last(lines).text = S_success1)

\* C5: a failed query fails the whole cycle at once and is never retried: an
\* error ends the call; after a failed status query no second connection
\* exists; after any failure the output holds no service-derived line; and no
\* query is sent twice (one connection per query, one query per connection).
C5_FailFast ==
    /\ raised.kind # "none" =>
          /\ Over
          /\ (phase = "status" => Len(conns) <= 1)
          /\ OutTexts("service") = {}
    /\ Len(conns) <= (IF phase = "services" THEN 2 ELSE IF phase = "status" THEN 1 ELSE 0)
    /\ \A i \in 1..Len(conns) : Len(conns[i].sent) <= 1

C5_Witness ==
    /\ raised.kind = "NagiosResponseError" /\ phase = "services"
    /\ stage = "payload" /\ count > 0 /\ results # <<>>
    /\ args.all_metrics /\ status_out # <<>>

\* some configured whitelist substring occurs in the text
Whitelisted(text) ==
    \E i \in 1..Len(args.whitelist) : IsSubstring(args.whitelist[i], text)

C7_AllMetricsKeepsAll ==
    (args.all_metrics /\ ServicesReturned) =>
        \A i \in 1..Len(services) : services[i].text \in OutTexts("service")

\* C8 (as claimed): with neither a whitelist nor "all metrics" configured the
\* output holds no service-derived line, for every setting of the remaining
\* options.
C8_NoOptInNoServices ==
    (args.whitelist = <<>> /\ ~args.all_metrics) => OutTexts("service") = {}

\* C8 (amended): with none of whitelist, "all metrics" and dump_metrics
\* configured, the services are never queried and the output holds only the
\* availability sentinel (after its comment line when the socket is missing),
\* the status-derived lines and the success sentinel.
C8_NoOptInNoDumpNoServices ==
    (args.whitelist = <<>> /\ ~args.all_metrics /\ ~args.dump_metrics) =>
        /\ \A i \in 1..Len(lines) : lines[i].src \in {"sentinel", "status", "comment"}
        /\ Len(conns) <= 1
        /\ phase # "services"
        /\ pc = "done" /\ raised.kind = "none" /\ args.path_exists =>
              lines = (<<Line(S_available1, "sentinel")>> \o status_out)
                      \o <<Line(S_success1, "sentinel")>>

C8_Witness ==
    /\ args.whitelist = <<>> /\ ~args.all_metrics /\ ~args.dump_metrics
    /\ args.use_perf_data /\ args.data_names # <<>>
    /\ pc = "done" /\ raised.kind = "none" /\ Len(status_out) = 2

\* C9: each query goes out on its own freshly opened connection and no
\* connection carries more than one; at most two connections are opened; the
\* status connection is closed before the services connection is opened; and
\* when the call is over every connection is closed, whichever step failed.
C9_Connections ==
    /\ Len(conns) <= 2
    /\ \A i \in 1..Len(conns) :
          /\ Len(conns[i].sent) <= 1
          /\ conns[i].sent # <<>> =>
                conns[i].sent[1] = (IF i = 1 THEN StatusQuery ELSE ServicesQuery)
                                   \o Directives
          /\ i < Len(conns) => ~conns[i].open
    /\ pc = "send" => (conns[sock].open /\ conns[sock].sent = <<>>)
    /\ Over => \A i \in 1..Len(conns) : ~conns[i].open

C9_Witness ==
    /\ pc = "fault" /\ raised.kind = "ValueError" /\ stage = "header"
    /\ Len(conns) = 2 /\ conns[2].read

\* a state of _receive in which recv is about to be called
Receiving == pc = "recv" /\ count > 0

HeaderFields(r) == SplitWs(TextOf(SubSeq(r, 1, Min(Len(r), HeaderLen))))

\* the query the running phase sends
PhaseQuery == IF phase = "status" THEN StatusQuery ELSE ServicesQuery

\* C11: on a well-formed reply, however the remote splits it into chunks,
\* query() sends the query text with the two directives, then half-closes,
\* then reads the header, then the payload; every recv asks for exactly the
\* bytes still missing (16 for the header, the declared length for the
\* payload); what was read, in arrival order, followed by what is still to
\* come, is the reply; with code 200 the parsed payload is what is returned,
\* once exactly the declared bytes are consumed; and every read loop ends.
C11_QuerySteps ==
    /\ [](\A i \in 1..Len(conns) :
             /\ conns[i].read => conns[i].shut
             /\ conns[i].shut => Len(conns[i].sent) = 1)
    /\ [](pc = "recv" =>
             /\ conns[sock].shut
             /\ conns[sock].sent = <<PhaseQuery \o Directives>>
             /\ count >= 0
             /\ count + Len(results) = (IF stage = "header" THEN HeaderLen ELSE length)
             /\ \E r \in Replies(phase) :
                   /\ Tail_n(r, IF stage = "header" THEN 0 ELSE HeaderLen)
                        = results \o stream
                   /\ stage = "payload" =>
                         /\ HeaderFields(r)[1] = code
                         /\ IntParse(HeaderFields(r)[2]).val = length)
    /\ [][(pc = "recv" /\ pc' # "recv" /\ raised'.kind = "none") =>
             /\ stage = "payload" /\ code = <<"2", "0", "0">>
             /\ Len(results) = length /\ stream = <<>>
             /\ phase = "status" =>
                   status_out' = get_status(json_loads(results).val).val
             /\ phase = "services" =>
                   services' = get_services(json_loads(results).val,
                                            args.use_perf_data, args.data_names).val]_vars
    /\ (Receiving ~> ~Receiving)

C11_Witness ==
    /\ ServicesReturned /\ Len(services) = 10
    /\ conns[1].read /\ conns[2].read /\ conns[2].shut
    /\ Len(status_out) = 2

\* the rows the services query returned (in a state where it has returned)
RowsReturned == json_loads(results).val.items

\* the five suffixes and the column each reports, in the order of the claim
FiveSuffixes ==
    << <<<<"_", "e", "x", "e", "c", "_", "t", "i", "m", "e">>, "execution_time">>,
       <<<<"_", "l", "a", "t", "e", "n", "c", "y">>, "latency">>,
       <<<<"_", "s", "t", "a", "t", "e">>, "state">>,
       <<<<"_", "f", "l", "a", "p", "p", "i", "n", "g">>, "is_flapping">>,
       <<<<"_", "a", "c", "k", "n", "o", "w", "l", "e", "d", "g", "e", "d">>, "acknowledged">> >>

\* the label set {hostname, service} of record s, as it is printed
RecordLabelsText(s) ==
    <<"{">> \o S_hostname \o <<"=", "\"">> \o Field(s, "host_name") \o <<"\"", ",", " ">>
    \o S_service \o <<"=", "\"">> \o Field(s, "service_description") \o <<"\"", "}">>

\* the canonical command of record s
RecordCommand(s) == canonical_command(Field(s, "check_command")).val

\* the five lines of record s when its metrics carry the name prefix `prefix`
FiveTexts(s, prefix) ==
    [i \in 1..5 |-> S_nagios \o prefix \o FiveSuffixes[i][1] \o RecordLabelsText(s)
                     \o <<" ">> \o Field(s, FiveSuffixes[i][2])]

\* performance data is processed for record s
PerfProcessed(s) == args.use_perf_data /\ Field(s, "perf_data") # <<>>

\* the performance-data lines of record s: the metrics get_perf_data returns
\* for it, rendered
PerfTexts(s) ==
    IF PerfProcessed(s)
    THEN LET ls == perf_lines(s, RecordCommand(s),
                              << <<S_hostname, Field(s, "host_name")>>,
                                 <<S_service, Field(s, "service_description")>> >>,
                              args.data_names).val
         IN [i \in 1..Len(ls) |-> ls[i].text]
    ELSE <<>>

\* the texts of the lines get_services returned
ServiceTexts == [i \in 1..Len(services) |-> services[i].text]

LabelSet(d) == {d[i] : i \in 1..Len(d)}

\* the positions of a hint that carry a non-empty field name, in order
NamedPositions(names) ==
    SelectSeq([i \in 1..Len(names) |-> i], LAMBDA i : names[i] # <<>>)

\* the metrics the claim expects for one key: one per named position, the
\* value of the position converted with the unit of position 0
ExpectedKeyMetrics(cmd, base, item, names) ==
    [j \in 1..Len(NamedPositions(names)) |->
        LET i == NamedPositions(names)[j]
        IN <<cmd \o S_perf_data \o <<"_">> \o names[i],
             {<<S_key, item[1]>>} \cup LabelSet(base),
             IF i <= Len(item[2])
             THEN convert_value_to_base_unit(parse_value_and_unit(item[2][i])[1],
                                             parse_value_and_unit(item[2][1])[2])
             ELSE <<>> >>]

\* the metrics the claim expects for all keys
ExpectedPerfData(cmd, base, values_map, names_map) ==
    Concat([k \in 1..Len(values_map) |->
              ExpectedKeyMetrics(cmd, base, values_map[k],
                                 DictGet(names_map, cmd, <<S_value>>))])

\* the base labels get_services hands to get_perf_data for record s
BaseLabels(s) ==
    << <<S_hostname, Field(s, "host_name")>>,
       <<S_service, Field(s, "service_description")>> >>

\* get_perf_data is called for record s with keys and hints that parse
PerfKeysGiven(s) ==
    /\ PerfProcessed(s)
    /\ parse_perf_data_fields(SplitWs(Field(s, "perf_data"))).exc = "none"
    /\ parse_perf_data_fields(args.data_names).exc = "none"

\* C13 (as claimed): for every performance-data key get_perf_data emits one
\* metric per non-empty field name of the command's hint (a single `value`
\* for position 0 with no hint), named <command>_perf_data_<field name>, its
\* value converted with the unit of position 0, its labels {key} with the
\* caller's base labels.
C13_OneMetricPerFieldName ==
    RendersWithoutPerfData =>
        \A n \in 1..Len(RowsReturned) :
            LET s == RowsReturned[n]
                r == get_perf_data(RecordCommand(s), BaseLabels(s),
                                   SplitWs(Field(s, "perf_data")), args.data_names)
            IN PerfKeysGiven(s) =>
                 /\ r.exc = "none"
                 /\ [j \in 1..Len(r.val) |->
                        <<r.val[j][1], LabelSet(r.val[j][2]), r.val[j][3]>>]
                    = ExpectedPerfData(
                          RecordCommand(s), BaseLabels(s),
                          parse_perf_data_fields(SplitWs(Field(s, "perf_data"))).val,
                          parse_perf_data_fields(args.data_names).val)

\* C13, where every named position has a value: what get_perf_data returns
\* is what the claim expects
C13_WithinValues ==
    RendersWithoutPerfData =>
        \A n \in 1..Len(RowsReturned) :
            LET s == RowsReturned[n]
                r == get_perf_data(RecordCommand(s), BaseLabels(s),
                                   SplitWs(Field(s, "perf_data")), args.data_names)
            IN (PerfKeysGiven(s) /\ r.exc = "none") =>
                 [j \in 1..Len(r.val) |->
                        <<r.val[j][1], LabelSet(r.val[j][2]), r.val[j][3]>>]
                    = ExpectedPerfData(
                          RecordCommand(s), BaseLabels(s),
                          parse_perf_data_fields(SplitWs(Field(s, "perf_data"))).val,
                          parse_perf_data_fields(args.data_names).val)

\* the factor the claim gives for each recognized unit, as (the product of
\* mul) / 10^shift: 2^30 = 2^20 * 2^10, 2^20, 2^10, 1e-3, 1e-6, 1e-2
ClaimedFactors ==
    << <<<<"G", "B">>, [mul |-> <<1048576, 1024>>, shift |-> 0]>>,
       <<<<"M", "B">>, [mul |-> <<1048576>>, shift |-> 0]>>,
       <<<<"K", "B">>, [mul |-> <<1024>>, shift |-> 0]>>,
       <<<<"m", "s">>, [mul |-> <<>>, shift |-> 3]>>,
       <<<<"u", "s", "e", "c">>, [mul |-> <<>>, shift |-> 6]>>,
       <<<<"%">>, [mul |-> <<>>, shift |-> 2]>> >>

\* value is a decimal number: an optional sign, digits with at most one
\* point, at least one digit
IsDecimal(value) ==
    LET body == IF value # <<>> /\ Head(value) \in {"-", "+"} THEN Tail(value)
                ELSE value
    IN /\ \A i \in 1..Len(body) : body[i] \in Digits \cup {"."}
       /\ Cardinality({i \in 1..Len(body) : body[i] = "."}) <= 1
       /\ \E i \in 1..Len(body) : body[i] \in Digits

\* the string form of the decimal number value times the claimed factor f
ScaledText(value, f) ==
    LET neg == Head(value) = "-"
        body == IF Head(value) \in {"-", "+"} THEN Tail(value) ELSE value
        point == FirstIn(body, {"."})
        ds == SelectSeq(body, LAMBDA c : c # ".")
        frac == IF point = 0 THEN 0 ELSE Len(body) - point
    IN FloatStr(neg, MulAll(ds, f.mul), frac + f.shift)

\* C14: convert_value_to_base_unit returns value unchanged for an empty or
\* unrecognized unit; for a recognized unit and a number, the string form of
\* the number times the unit's factor (GB 2^30, MB 2^20, KB 2^10, ms 1e-3,
\* usec 1e-6, % 1e-2); for a recognized unit and a value that is no number,
\* value followed by unit; and it always returns.
C14_ConvertValue ==
    conv.pc = "returned" =>
        IF conv.unit = <<>> \/ conv.unit \notin DictKeys(ClaimedFactors)
        THEN conv.ret = conv.value
        ELSE IF IsDecimal(conv.value)
        THEN conv.ret = ScaledText(conv.value,
                                   DictGet(ClaimedFactors, conv.unit,
                                           [mul |-> <<>>, shift |-> 0]))
        ELSE conv.ret = conv.value \o conv.unit

C14_Witness ==
    /\ conv.pc = "returned"
    /\ conv.value = <<"2", "4", "0", "0">> /\ conv.unit = <<"K", "B">>
    /\ conv.ret = <<"2", "4", "5", "7", "6", "0", "0", ".", "0">>

\* the service-derived lines of the output, in output order
OutServiceLines == SelectSeq(lines, LAMBDA l : l.src = "service")

\* C15 (as claimed): with a whitelist configured, the service-derived lines of
\* the output are the lines of the services query that contain a whitelist
\* substring, each once and in the order the services query produced them,
\* also when a line contains two of the substrings or a substring is
\* configured twice.
C15_WhitelistOnceInOrder ==
    (args.whitelist # <<>> /\ ServicesReturned) =>
        OutServiceLines = SelectSeq(services, LAMBDA x : Whitelisted(x.text))

====
